---- MODULE Spec2Model ----
(***************************************************************************)
(* Authentication, session and comment core of the document browser:       *)
(* database/models.py, database/crud.py, auth/oauth.py, app.py and          *)
(* components/comments.py.                                                  *)
(*                                                                         *)
(* The relational store is the record db (one sequence of rows per table,  *)
(* a row's id being its position, except comments whose rows can be         *)
(* deleted and carry their id).  Every crud function is an operator from    *)
(* the store, the clock and its arguments to [db, ret, raised]: the store   *)
(* after the call, the value returned, and whether the call raised.         *)
(* Time is counted in hours.  Optional integers (nullable timestamps) are   *)
(* <<>> (NULL) or <<t>>; optional strings are None or the string.           *)
(***************************************************************************)
EXTENDS Integers, Sequences, FiniteSets, TLC

VARIABLES
    db,      \* the tables of database/models.py: users, sessions, documents, comments
    now,     \* datetime.utcnow(), in hours
    config,  \* auth/oauth.py config = OAuthConfig(): client id and secret per provider
    st,      \* st.session_state of each browser session
    ret,     \* the last request or call: its arguments and what it returned
    calls    \* per request thread: the crud call it is inside, between its SELECT and its commit

vars == <<db, now, config, st, ret, calls>>

---------------------------------------------------------------------------
(* Bounds of the model *)

MaxTicks == 2
MaxSessions == 2
MaxComments == 1

TickHours == {12}
MaxTime == MaxTicks * 12

None == "None"

(* a key that a JSON answer does not have: d["key"] raises KeyError *)
Missing == "Missing"

Providers == {"google", "microsoft", "github"}
Emails == {"e1", "e2"}
Clients == {"c1", "c2"}

---------------------------------------------------------------------------
(* Helpers on rows *)

Min(S) == CHOOSE x \in S : \A y \in S : x <= y

Max(S) == CHOOSE x \in S : \A y \in S : x >= y

(* Query(...).first() on a table kept as a sequence: the lowest matching id, 0 for None *)
First(S) == IF S = {} THEN 0 ELSE Min(S)

---------------------------------------------------------------------------
(* database/crud.py *)

expires_hours == 24

Result(d, r, x) == [db |-> d, ret |-> r, raised |-> x]

get_or_create_user_keep(d, t, email, name, oauth_provider, oauth_id, avatar_url) ==
    LET uid == First({i \in DOMAIN d.users :
                        /\ d.users[i].email = email
                        /\ d.users[i].oauth_provider = oauth_provider})
    IN  IF uid = 0
        THEN IF email = None \/ name = None \/ (\E i \in DOMAIN d.users : d.users[i].email = email)
             THEN Result(d, 0, TRUE)
             ELSE Result([d EXCEPT !.users = Append(@, [email |-> email, name |-> name,
                              avatar_url |-> avatar_url, oauth_provider |-> oauth_provider,
                              oauth_id |-> oauth_id, last_login |-> <<>>])],
                         Len(d.users) + 1, FALSE)
        ELSE Result(d, uid, FALSE)

get_or_create_user(d, t, email, name, oauth_provider, oauth_id, avatar_url) ==
    LET uid == First({i \in DOMAIN d.users :
                        /\ d.users[i].email = email
                        /\ d.users[i].oauth_provider = oauth_provider})
    IN  IF uid = 0
        THEN \* users.email is unique and email, name are NOT NULL: the INSERT
             \* raises IntegrityError at commit and no row is added
             IF email = None \/ name = None \/ (\E i \in DOMAIN d.users : d.users[i].email = email)
             THEN Result(d, 0, TRUE)
             ELSE Result([d EXCEPT !.users = Append(@, [email |-> email, name |-> name,
                              avatar_url |-> avatar_url, oauth_provider |-> oauth_provider,
                              oauth_id |-> oauth_id, last_login |-> <<>>])],
                         Len(d.users) + 1, FALSE)
        ELSE IF name = None
             THEN Result(d, 0, TRUE)
             ELSE Result([d EXCEPT !.users[uid].name = name,
                                   !.users[uid].avatar_url = avatar_url,
                                   !.users[uid].last_login = <<t>>],
                         uid, FALSE)

(* secrets.token_urlsafe(32): a token no earlier session carries *)
FreshToken(d) == Len(d.sessions) + 1

create_session_short(d, t, user_id) ==
    Result([d EXCEPT !.sessions = Append(@, [session_token |-> FreshToken(d),
                     user_id |-> user_id, expires_at |-> t, is_active |-> TRUE])],
           FreshToken(d), FALSE)

create_session_revive(d, t, user_id) ==
    Result([d EXCEPT !.sessions =
               Append([i \in DOMAIN @ |-> IF @[i].user_id = user_id
                                          THEN [@[i] EXCEPT !.is_active = TRUE] ELSE @[i]],
                      [session_token |-> FreshToken(d), user_id |-> user_id,
                       expires_at |-> t + expires_hours, is_active |-> TRUE])],
           FreshToken(d), FALSE)

create_session(d, t, user_id) ==
    Result([d EXCEPT !.sessions = Append(@, [session_token |-> FreshToken(d),
                     user_id |-> user_id, expires_at |-> t + expires_hours,
                     is_active |-> TRUE])],
           FreshToken(d), FALSE)

get_user_by_session_lax(d, t, session_token) ==
    LET sid == First({i \in DOMAIN d.sessions :
                        /\ d.sessions[i].session_token = session_token
                        /\ d.sessions[i].is_active
                        /\ d.sessions[i].expires_at >= t})
    IN  IF sid # 0 THEN d.sessions[sid].user_id ELSE 0

get_user_by_session_tells(d, t, session_token) ==
    LET sid == First({i \in DOMAIN d.sessions :
                        /\ d.sessions[i].session_token = session_token
                        /\ d.sessions[i].is_active
                        /\ d.sessions[i].expires_at > t})
    IN  IF sid # 0 THEN d.sessions[sid].user_id
        ELSE IF \E i \in DOMAIN d.sessions : d.sessions[i].session_token = session_token
        THEN -1
        ELSE 0

get_user_by_session_noexpiry(d, t, session_token) ==
    LET sid == First({i \in DOMAIN d.sessions :
                        /\ d.sessions[i].session_token = session_token
                        /\ d.sessions[i].is_active})
    IN  IF sid # 0 THEN d.sessions[sid].user_id ELSE 0

(* returns the id of session.user, 0 for None *)
get_user_by_session(d, t, session_token) ==
    LET sid == First({i \in DOMAIN d.sessions :
                        /\ d.sessions[i].session_token = session_token
                        /\ d.sessions[i].is_active
                        /\ d.sessions[i].expires_at > t})
    IN  IF sid # 0 THEN d.sessions[sid].user_id ELSE 0

invalidate_session_user(d, session_token) ==
    LET sid == First({i \in DOMAIN d.sessions :
                        d.sessions[i].session_token = session_token})
    IN  IF sid # 0
        THEN Result([d EXCEPT !.sessions =
                        [i \in DOMAIN @ |->
                            IF @[i].user_id = @[sid].user_id
                            THEN [@[i] EXCEPT !.is_active = FALSE] ELSE @[i]]],
                    TRUE, FALSE)
        ELSE Result(d, FALSE, FALSE)

invalidate_session_delete(d, session_token) ==
    LET sid == First({i \in DOMAIN d.sessions :
                        d.sessions[i].session_token = session_token})
    IN  IF sid # 0
        THEN Result([d EXCEPT !.sessions = SubSeq(@, 1, sid - 1) \o SubSeq(@, sid + 1, Len(@))],
                    TRUE, FALSE)
        ELSE Result(d, FALSE, FALSE)

invalidate_session_toggle(d, session_token) ==
    LET sid == First({i \in DOMAIN d.sessions :
                        d.sessions[i].session_token = session_token})
    IN  IF sid # 0
        THEN Result([d EXCEPT !.sessions[sid].is_active = ~@], TRUE, FALSE)
        ELSE Result(d, FALSE, FALSE)

invalidate_session(d, session_token) ==
    LET sid == First({i \in DOMAIN d.sessions :
                        d.sessions[i].session_token = session_token})
    IN  IF sid # 0
        THEN Result([d EXCEPT !.sessions[sid].is_active = FALSE], TRUE, FALSE)
        ELSE Result(d, FALSE, FALSE)

get_or_create_document(d, name, date, document_type) ==
    LET did == First({i \in DOMAIN d.documents :
                        /\ d.documents[i].name = name
                        /\ d.documents[i].date = date})
    IN  IF did = 0
        THEN Result([d EXCEPT !.documents = Append(@, [name |-> name, date |-> date,
                         document_type |-> document_type])],
                    Len(d.documents) + 1, FALSE)
        ELSE Result(d, did, FALSE)

(* get_or_create_document in its two steps, between which another thread can
   run: the SELECT ... .first(), and the rest, which inserts when the SELECT
   found no row.  documents has no unique constraint on (name, date), so the
   INSERT always succeeds. *)
get_or_create_document_query(d, name, date) ==
    First({i \in DOMAIN d.documents :
             /\ d.documents[i].name = name
             /\ d.documents[i].date = date})

get_or_create_document_finish(d, found, name, date, document_type) ==
    IF found = 0
    THEN Result([d EXCEPT !.documents = Append(@, [name |-> name, date |-> date,
                     document_type |-> document_type])],
                Len(d.documents) + 1, FALSE)
    ELSE Result(d, found, FALSE)

(* get_or_create_user in its two steps: the SELECT ... .first(), and the
   rest, whose commit checks the constraints of users against the rows the
   table holds by then *)
get_or_create_user_query(d, email, oauth_provider) ==
    First({i \in DOMAIN d.users :
             /\ d.users[i].email = email
             /\ d.users[i].oauth_provider = oauth_provider})

get_or_create_user_finish(d, t, found, email, name, oauth_provider, oauth_id, avatar_url) ==
    IF found = 0
    THEN IF email = None \/ name = None \/ (\E i \in DOMAIN d.users : d.users[i].email = email)
         THEN Result(d, 0, TRUE)
         ELSE Result([d EXCEPT !.users = Append(@, [email |-> email, name |-> name,
                          avatar_url |-> avatar_url, oauth_provider |-> oauth_provider,
                          oauth_id |-> oauth_id, last_login |-> <<>>])],
                     Len(d.users) + 1, FALSE)
    ELSE IF name = None
         THEN Result(d, 0, TRUE)
         ELSE Result([d EXCEPT !.users[found].name = name,
                               !.users[found].avatar_url = avatar_url,
                               !.users[found].last_login = <<t>>],
                     found, FALSE)

(* comments.id is an INTEGER PRIMARY KEY without AUTOINCREMENT: SQLite gives
   a new row the largest id still in the table plus one *)
NextCommentId(d) == IF d.comments = {} THEN 1 ELSE Max({c.id : c \in d.comments}) + 1

CommentWithId(d, comment_id) == {c \in d.comments : c.id = comment_id}

(* element_id is <<>> for None and <<s>> for the string s *)
create_comment(d, user_id, document_id, content, element_id) ==
    Result([d EXCEPT !.comments = @ \cup {[id |-> NextCommentId(d), user_id |-> user_id,
                     document_id |-> document_id, content |-> content,
                     element_id |-> element_id, updated_at |-> <<>>,
                     is_resolved |-> FALSE]}],
           NextCommentId(d), FALSE)

(* the rows the query returns; the list's order (created_at descending) is
   not kept *)
get_comments_for_document(d, document_id) ==
    {c \in d.comments : c.document_id = document_id}

update_comment_reopen(d, t, comment_id, content) ==
    IF CommentWithId(d, comment_id) # {}
    THEN Result([d EXCEPT !.comments =
                    {IF c.id = comment_id
                     THEN [c EXCEPT !.content = content, !.updated_at = <<t>>,
                                    !.is_resolved = FALSE]
                     ELSE c : c \in @}],
                comment_id, FALSE)
    ELSE Result(d, 0, FALSE)

update_comment(d, t, comment_id, content) ==
    IF CommentWithId(d, comment_id) # {}
    THEN Result([d EXCEPT !.comments =
                    {IF c.id = comment_id
                     THEN [c EXCEPT !.content = content, !.updated_at = <<t>>]
                     ELSE c : c \in @}],
                comment_id, FALSE)
    ELSE Result(d, 0, FALSE)

delete_comment_any(d, comment_id, user_id) ==
    IF CommentWithId(d, comment_id) # {}
    THEN Result([d EXCEPT !.comments = {c \in @ : c.id # comment_id}], TRUE, FALSE)
    ELSE Result(d, FALSE, FALSE)

delete_comment(d, comment_id, user_id) ==
    IF \E c \in d.comments : c.id = comment_id /\ c.user_id = user_id
    THEN Result([d EXCEPT !.comments = {c \in @ : c.id # comment_id}], TRUE, FALSE)
    ELSE Result(d, FALSE, FALSE)

(* the UPDATE that sets is_resolved also fires updated_at's onupdate=func.now();
   no UPDATE is emitted when is_resolved was already true *)
resolve_comment(d, t, comment_id) ==
    IF CommentWithId(d, comment_id) # {}
    THEN Result([d EXCEPT !.comments =
                    {IF c.id = comment_id /\ ~c.is_resolved
                     THEN [c EXCEPT !.is_resolved = TRUE, !.updated_at = <<t>>]
                     ELSE c : c \in @}],
                TRUE, FALSE)
    ELSE Result(d, FALSE, FALSE)

(* Rows removed through the ORM.  A row of users or documents is its
   position in the sequence, so a removed row leaves a marker at its place.
   documents is declared with sqlite_autoincrement, which never gives an id
   out again; users is not, and SQLite gives a new user the largest id still
   in the table plus one, so markers at the end of users are dropped. *)
Deleted == "Deleted"

DeletedDocument == [name |-> Deleted, date |-> Deleted, document_type |-> Deleted]

DeletedUser ==
    [email |-> Deleted, name |-> Deleted, avatar_url |-> Deleted,
     oauth_provider |-> Deleted, oauth_id |-> Deleted, last_login |-> <<>>]

LiveDocuments(d) == {i \in DOMAIN d.documents : d.documents[i] # DeletedDocument}

LiveUsers(d) == {i \in DOMAIN d.users : d.users[i] # DeletedUser}

RECURSIVE DropTrailing(_, _)
DropTrailing(rows, marker) ==
    IF rows # <<>> /\ rows[Len(rows)] = marker
    THEN DropTrailing(SubSeq(rows, 1, Len(rows) - 1), marker)
    ELSE rows

(* Session.delete(document) and commit, without the cascade of
   Document.comments: the comments stay *)
delete_document_nocascade(d, document_id) ==
    IF document_id \in LiveDocuments(d)
    THEN Result([d EXCEPT !.documents[document_id] = DeletedDocument], TRUE, FALSE)
    ELSE Result(d, FALSE, FALSE)

(* Session.delete(document) and commit: cascade="all, delete-orphan" on
   Document.comments deletes the document's comments in the same flush *)
delete_document(d, document_id) ==
    IF document_id \in LiveDocuments(d)
    THEN Result([d EXCEPT !.documents[document_id] = DeletedDocument,
                          !.comments = {c \in @ : c.document_id # document_id}],
                TRUE, FALSE)
    ELSE Result(d, FALSE, FALSE)

(* Session.delete(user) and commit: cascade="all, delete-orphan" on
   User.comments deletes the user's comments in the same flush *)
delete_user(d, user_id) ==
    IF user_id \in LiveUsers(d)
    THEN Result([d EXCEPT !.users = DropTrailing([@ EXCEPT ![user_id] = DeletedUser],
                                                 DeletedUser),
                          !.comments = {c \in @ : c.user_id # user_id}],
                TRUE, FALSE)
    ELSE Result(d, FALSE, FALSE)

---------------------------------------------------------------------------
(* auth/oauth.py *)

redirect_uri == "http://localhost:8500"

is_configured_id_only(cfg, provider) ==
    IF provider \in {"google", "microsoft", "github"}
    THEN cfg[provider].client_id \notin {None, ""}
    ELSE FALSE

(* bool(client_id and client_secret): a variable that is unset (None) or set
   to the empty string is falsy *)
is_configured(cfg, provider) ==
    IF provider \in {"google", "microsoft", "github"}
    THEN /\ cfg[provider].client_id \notin {None, ""}
         /\ cfg[provider].client_secret \notin {None, ""}
    ELSE FALSE

(* st.session_state of one browser session; a key that is absent is 0 for
   user_session, <<>> for user_info and None for the two oauth keys *)
EmptySessionState ==
    [user_session |-> 0, user_info |-> <<>>, oauth_state |-> None,
     oauth_provider |-> None, confirm_delete |-> {}]

get_oauth_login_url_unstored(cfg, s, provider, state) ==
    IF ~is_configured(cfg, provider)
    THEN [st |-> s, ret |-> <<>>]
    ELSE [st |-> [s EXCEPT !.oauth_provider = provider],
          ret |-> <<[client_id |-> cfg[provider].client_id,
                   redirect_uri |-> redirect_uri,
                   scope |-> IF provider = "github" THEN "user:email"
                             ELSE "openid email profile",
                   response_type |-> IF provider = "github" THEN None ELSE "code",
                   state |-> state,
                   endpoint |-> provider]>>]

(* state is the value secrets.token_urlsafe(32) draws; a parameter the URL
   does not carry is None *)
get_oauth_login_url(cfg, s, provider, state) ==
    IF ~is_configured(cfg, provider)
    THEN [st |-> s, ret |-> <<>>]
    ELSE [st |-> [s EXCEPT !.oauth_state = state, !.oauth_provider = provider],
          ret |-> <<[client_id |-> cfg[provider].client_id,
                   redirect_uri |-> redirect_uri,
                   scope |-> IF provider = "github" THEN "user:email"
                             ELSE "openid email profile",
                   response_type |-> IF provider = "github" THEN None ELSE "code",
                   state |-> state,
                   endpoint |-> provider]>>]

(* The providers' side of the exchange.  A code is [issuer, user_info,
   profile_status]: issued by that provider for the account whose profile
   endpoint answers user_info with HTTP status profile_status (issuer
   "nobody": a code no provider knows).  Posting a code to another provider's
   token endpoint gets a non-2xx answer, and raise_for_status raises; so does
   a non-2xx answer of the profile endpoint; user_info["email"],
   user_info["name"] and user_info["id"] raise KeyError for a missing key.
   Each handler returns <<>> for a raised exception, else <<dict>>. *)
_handle_google_callback_nostatus(code) ==
    IF code.issuer # "google"
    THEN <<>>
    ELSE IF Missing \in {code.user_info.email, code.user_info.name, code.user_info.id}
    THEN <<>>
    ELSE <<[email |-> code.user_info.email, name |-> code.user_info.name,
                   avatar_url |-> code.user_info.picture, oauth_provider |-> "google",
                   oauth_id |-> code.user_info.id]>>

_handle_google_callback(code) ==
    IF code.issuer # "google" \/ code.profile_status # 200
    THEN <<>>
    ELSE IF Missing \in {code.user_info.email, code.user_info.name, code.user_info.id}
    THEN <<>>
    ELSE <<[email |-> code.user_info.email, name |-> code.user_info.name,
                   avatar_url |-> code.user_info.picture, oauth_provider |-> "google",
                   oauth_id |-> code.user_info.id]>>

_handle_microsoft_callback(code) ==
    IF code.issuer # "microsoft" \/ code.profile_status # 200
    THEN <<>>
    ELSE <<[email |-> code.user_info.email, name |-> code.user_info.name,
                   avatar_url |-> None, oauth_provider |-> "microsoft",
                   oauth_id |-> code.user_info.id]>>

(* not x, for x a string, None or a missing key read with .get *)
Falsy(x) == x \in {Missing, None, ""}

(* d.get(key): None for a missing key *)
Get(x) == IF x = Missing THEN None ELSE x

(* A GitHub code also carries emails, the answer of the account's email list
   (a sequence of [email, primary]), and emails_status, its HTTP status.  The
   list is asked for only when the profile has no email; the first entry with
   a true primary gives the email, and with no such entry email keeps the
   value the profile had. *)
_handle_github_callback(code) ==
    IF code.issuer # "github" \/ code.profile_status # 200
    THEN <<>>
    ELSE LET user_info == code.user_info
             primary == {i \in DOMAIN code.emails : code.emails[i].primary = TRUE}
             email == IF ~Falsy(user_info.email) THEN user_info.email
                      ELSE IF primary # {} THEN code.emails[Min(primary)].email
                      ELSE Get(user_info.email)
         IN  IF Falsy(user_info.email) /\ code.emails_status # 200
             THEN <<>>
             ELSE IF \/ email = Missing
                     \/ user_info.name = Missing
                     \/ (Falsy(user_info.name) /\ user_info.login = Missing)
                     \/ user_info.id = Missing
             THEN <<>>
             ELSE <<[email |-> email,
                     name |-> IF Falsy(user_info.name) THEN user_info.login
                              ELSE user_info.name,
                     avatar_url |-> Get(user_info.avatar_url),
                     oauth_provider |-> "github",
                     oauth_id |-> user_info.id]>>

(* the comparison of state with the stored oauth_state is commented out
   (oauth.py 115-119); an exception of the exchange is caught and None (<<>>)
   returned *)
handle_oauth_callback(s, provider, code, state) ==
    IF provider = "google" THEN _handle_google_callback(code)
    ELSE IF provider = "microsoft" THEN _handle_microsoft_callback(code)
    ELSE IF provider = "github" THEN _handle_github_callback(code)
    ELSE <<>>

login_user(d, t, s, user_info) ==
    LET u == get_or_create_user(d, t, user_info.email, user_info.name,
                                user_info.oauth_provider, user_info.oauth_id,
                                user_info.avatar_url)
        c == create_session(u.db, t, u.ret)
        row == c.db.users[u.ret]
    IN  IF u.raised
        THEN [db |-> u.db, st |-> s, ret |-> 0, raised |-> TRUE]
        ELSE [db |-> c.db,
              st |-> [s EXCEPT !.user_session = c.ret,
                               !.user_info = <<[id |-> u.ret, email |-> row.email,
                                                name |-> row.name,
                                                avatar_url |-> row.avatar_url]>>],
              ret |-> c.ret, raised |-> FALSE]

(* login_user when the commit of create_session raises (the database is
   locked or full): get_or_create_user has committed by then, the session row
   is not written, and the exception leaves login_user before session_state
   is touched *)
login_user_session_fails(d, t, s, user_info) ==
    LET u == get_or_create_user(d, t, user_info.email, user_info.name,
                                user_info.oauth_provider, user_info.oauth_id,
                                user_info.avatar_url)
    IN  [db |-> u.db, st |-> s, ret |-> 0, raised |-> TRUE]

get_current_user_cached(d, t, s) ==
    IF s.user_info = <<>> THEN 0 ELSE s.user_info[1].id

(* the id of the user the held token resolves to, 0 for None *)
get_current_user(d, t, s) ==
    IF s.user_session = 0 THEN 0 ELSE get_user_by_session(d, t, s.user_session)

is_authenticated(d, t, s) == get_current_user(d, t, s) # 0

logout_user_clear_only(d, s) ==
    IF s.user_session # 0
    THEN [db |-> d,
          st |-> [s EXCEPT !.user_session = 0, !.user_info = <<>>, !.oauth_state = None]]
    ELSE [db |-> d, st |-> s]

logout_user(d, s) ==
    IF s.user_session # 0
    THEN [db |-> invalidate_session(d, s.user_session).db,
          st |-> [s EXCEPT !.user_session = 0, !.user_info = <<>>, !.oauth_state = None]]
    ELSE [db |-> d, st |-> s]

---------------------------------------------------------------------------
(* components/comments.py *)

(* the whitespace characters str.strip() removes *)
IsSpace(ch) == ch \in {" ", "\t", "\n"}

(* str.strip() on a string kept as a sequence of characters *)
RECURSIVE LStrip(_)
LStrip(s) == IF s # <<>> /\ IsSpace(Head(s)) THEN LStrip(Tail(s)) ELSE s

RECURSIVE RStrip(_)
RStrip(s) == IF s # <<>> /\ IsSpace(s[Len(s)]) THEN RStrip(SubSeq(s, 1, Len(s) - 1)) ELSE s

strip(s) == RStrip(LStrip(s))

render_add_comment_form_noguard(d, user_id, document_id, comment_text, element_id) ==
    create_comment(d, user_id, document_id, strip(comment_text),
                   IF strip(element_id) # <<>> THEN <<strip(element_id)>> ELSE <<>>)

render_add_comment_form_raw(d, user_id, document_id, comment_text, element_id) ==
    IF strip(comment_text) # <<>>
    THEN create_comment(d, user_id, document_id, comment_text, <<element_id>>)
    ELSE Result(d, 0, FALSE)

(* if submitted and comment_text.strip(): create_comment(...) *)
render_add_comment_form(d, user_id, document_id, comment_text, element_id) ==
    IF strip(comment_text) # <<>>
    THEN create_comment(d, user_id, document_id, strip(comment_text),
                        IF strip(element_id) # <<>> THEN <<strip(element_id)>> ELSE <<>>)
    ELSE Result(d, 0, FALSE)

(* if save_clicked and new_content.strip(): update_comment(...) *)
render_edit_comment_form(d, t, comment_id, new_content) ==
    IF strip(new_content) # <<>>
    THEN update_comment(d, t, comment_id, strip(new_content))
    ELSE Result(d, 0, FALSE)

render_comment_noowner(d, t, s, comment, user_id, event, new_content) ==
    IF event = "edit"
    THEN LET r == render_edit_comment_form(d, t, comment.id, new_content)
         IN  [db |-> r.db, st |-> s, ret |-> r.ret # 0]
    ELSE IF event = "resolve" /\ ~comment.is_resolved /\ user_id = comment.user_id
    THEN LET r == resolve_comment(d, t, comment.id)
         IN  [db |-> r.db, st |-> s, ret |-> r.ret]
    ELSE [db |-> d, st |-> s, ret |-> FALSE]

render_comment_resolve_any(d, t, s, comment, user_id, event, new_content) ==
    IF event = "resolve" /\ ~comment.is_resolved
    THEN LET r == resolve_comment(d, t, comment.id)
         IN  [db |-> r.db, st |-> s, ret |-> r.ret]
    ELSE [db |-> d, st |-> s, ret |-> FALSE]

(* render_comment's three buttons, shown when current_user["id"] == comment.user_id.
   event is the button clicked; s is the clicking client's session state. *)
render_comment(d, t, s, comment, user_id, event, new_content) ==
    IF user_id # comment.user_id
    THEN [db |-> d, st |-> s, ret |-> FALSE]
    ELSE IF event = "edit"
    THEN LET r == render_edit_comment_form(d, t, comment.id, new_content)
         IN  [db |-> r.db, st |-> s, ret |-> r.ret # 0]
    ELSE IF event = "delete"
    THEN IF comment.id \in s.confirm_delete
         THEN LET r == delete_comment(d, comment.id, user_id)
              IN  [db |-> r.db, st |-> s, ret |-> r.ret]
         ELSE [db |-> d, st |-> [s EXCEPT !.confirm_delete = @ \cup {comment.id}],
               ret |-> FALSE]
    ELSE IF event = "resolve" /\ ~comment.is_resolved
    THEN LET r == resolve_comment(d, t, comment.id)
         IN  [db |-> r.db, st |-> s, ret |-> r.ret]
    ELSE [db |-> d, st |-> s, ret |-> FALSE]

(* One run of render_comment_section for the document doc with one event of
   the client: "view", "post" (the add form submitted), or a button of the
   comment with id comment_id. *)
render_comment_section(d, t, s, doc, event, comment_id, text, element_id) ==
    LET user_id == get_current_user(d, t, s)
        g == get_or_create_document(d, doc.name, doc.date, doc.type)
        shown == {c \in g.db.comments : c.document_id = g.ret /\ c.id = comment_id}
    IN  IF user_id = 0
        THEN [db |-> d, st |-> s, ret |-> FALSE]
        ELSE IF event = "post"
        THEN LET r == render_add_comment_form(g.db, user_id, g.ret, text, element_id)
             IN  [db |-> r.db, st |-> s, ret |-> r.ret # 0]
        ELSE IF event \in {"edit", "delete", "resolve"} /\ shown # {}
        THEN render_comment(g.db, t, s, CHOOSE c \in shown : TRUE, user_id, event, text)
        ELSE [db |-> g.db, st |-> s, ret |-> FALSE]

---------------------------------------------------------------------------
(* app.py: one run of main() for one request of a client *)

(* 'code' in params and 'state' in params: the provider is always 'google';
   an exception of login_user is caught and reported *)
main_callback(d, t, s, code, state) ==
    LET user_info == handle_oauth_callback(s, "google", code, state)
        r == login_user(d, t, s, user_info[1])
    IN  IF user_info = <<>>
        THEN [db |-> d, st |-> s, ret |-> 0]
        ELSE [db |-> r.db, st |-> r.st, ret |-> r.ret]

(* the same request when the session INSERT fails *)
main_callback_session_fails(d, t, s, code, state) ==
    LET user_info == handle_oauth_callback(s, "google", code, state)
        r == login_user_session_fails(d, t, s, user_info[1])
    IN  IF user_info = <<>>
        THEN [db |-> d, st |-> s, ret |-> 0]
        ELSE [db |-> r.db, st |-> r.st, ret |-> r.ret]

(* if not is_authenticated(): render_login_page(); return *)
main_document(d, t, s, doc, event, comment_id, text, element_id) ==
    IF ~is_authenticated(d, t, s)
    THEN [db |-> d, st |-> s, ret |-> FALSE]
    ELSE render_comment_section(d, t, s, doc, event, comment_id, text, element_id)

---------------------------------------------------------------------------
(* Inputs *)

OAuthStates == {"s1", "s2"}

Account(email, name, picture, id) ==
    [email |-> email, name |-> name, picture |-> picture, id |-> id]

Code(issuer, user_info) ==
    [issuer |-> issuer, user_info |-> user_info, profile_status |-> 200]

Codes ==
    { Code("nobody", Account("e1", "n1", None, "x1")),
      Code("google", Account("e1", "n1", None, "x1")),
      Code("google", Account("e2", "n2", "pic", "x2")),
      Code("microsoft", Account("e1", "n1", None, "x3")) }

(* codes whose exchange with Google goes wrong in each of the ways it can,
   and two that go through *)
ExchangeCodes ==
    { Code("nobody", Account("e1", "n1", None, "x1")),
      [Code("google", Account("e1", "n1", None, "x1")) EXCEPT !.profile_status = 401],
      Code("google", Account(Missing, "n1", None, "x1")),
      Code("google", Account("e1", Missing, None, "x1")),
      Code("google", Account("e1", "n1", None, Missing)),
      Code("google", Account(None, "n1", None, "x1")),
      Code("google", Account("e1", "n1", None, "x1")),
      Code("google", Account("e2", "n2", "pic", "x2")) }

(* GitHub profiles with and without a public email and a name, and email
   lists of up to MaxEmails entries *)
MaxEmails == 2

MaxDocuments == 2

EmailEntries == [email : Emails, primary : BOOLEAN]

EmailLists == UNION { [1 .. n -> EmailEntries] : n \in 0 .. MaxEmails }

GitHubAccounts ==
    [email : {None, "e1"}, name : {None, "n1"}, login : {"l1"},
     avatar_url : {None}, id : {"x9"}]

GitHubCodes ==
    [issuer : {"github"}, user_info : GitHubAccounts, profile_status : {200, 401},
     emails_status : {200, 403}, emails : EmailLists]

Docs == { [name |-> "report", date |-> "2024-01-01", type |-> "html"] }

Texts == { <<" ">>, <<" ", "a">>, <<"b">> }

ElementIds == { <<>>, <<"s", " ">> }

(* what the text area and the element field of the add form can hold *)
FormTexts ==
    { <<>>, <<" ">>, <<"\t", " ">>, <<" ", "a", " ">>, <<"a", " ", "b">>, <<"\n", "b">>, <<"a">> }

FormElementIds == { <<>>, <<" ">>, <<"s", " ">>, <<" ", "s">> }

CommentIds == 1 .. (MaxComments + 1)

Tokens == 1 .. (MaxSessions + 1)

(* the environments OAuthConfig() can be built in: each variable unset, empty or set *)
ClientIds == [google |-> "id-google", microsoft |-> "id-microsoft", github |-> "id-github"]

Configs ==
    [Providers -> [client_id : {None, "", "id"}, client_secret : {None, "", "secret"}]]

EnvConfigs ==
    { [p \in Providers |->
          [cfg[p] EXCEPT !.client_id = IF @ = "id" THEN ClientIds[p] ELSE @]] : cfg \in Configs }

(* a provider name that is none of the three *)
AnyProviders == Providers \cup {"okta"}

FullConfig ==
    [p \in Providers |->
        IF p = "microsoft" THEN [client_id |-> "id-microsoft", client_secret |-> None]
        ELSE [client_id |-> "id", client_secret |-> "secret"]]

---------------------------------------------------------------------------
(* State machine *)

(* a request thread that is inside no crud call *)
Idle == [op |-> "idle"]

EmptyDb == [users |-> <<>>, sessions |-> <<>>, documents |-> <<>>, comments |-> {}]

Init ==
    /\ db = EmptyDb
    /\ now = 0
    /\ config = FullConfig
    /\ st = [c \in Clients |-> EmptySessionState]
    /\ ret = [op |-> "init"]
    /\ calls = [c \in Clients |-> Idle]

Tick ==
    /\ \E h \in TickHours : now + h <= MaxTime /\ now' = now + h
    /\ ret' = [op |-> "tick"]
    /\ UNCHANGED <<db, config, st, calls>>

(* a login button of render_login_page, shown to an anonymous client for a
   configured provider *)
ClickLogin(c, provider, state) ==
    /\ ~is_authenticated(db, now, st[c])
    /\ is_configured(config, provider)
    /\ LET r == get_oauth_login_url(config, [st[c] EXCEPT !.oauth_provider = provider],
                                    provider, state)
       IN  /\ st' = [st EXCEPT ![c] = r.st]
           /\ ret' = [op |-> "login_url", client |-> c, val |-> r.ret]
    /\ UNCHANGED <<db, now, config, calls>>

(* get_oauth_login_url called for any provider name *)
GetOAuthLoginUrl(c, provider, state) ==
    /\ LET r == get_oauth_login_url(config, st[c], provider, state)
       IN  /\ st' = [st EXCEPT ![c] = r.st]
           /\ ret' = [op |-> "get_oauth_login_url", client |-> c, provider |-> provider,
                      val |-> r.ret]
    /\ UNCHANGED <<db, now, config, calls>>

(* handle_oauth_callback('github', code, state) called directly *)
GitHubExchange(c, code, state) ==
    /\ ret' = [op |-> "github_exchange", client |-> c, code |-> code,
               val |-> handle_oauth_callback(st[c], "github", code, state)]
    /\ UNCHANGED <<db, now, config, st, calls>>

(* a request that carries code and state, served while the store refuses
   the INSERT of the session row *)
OAuthCallbackSessionFails(c, code, state) ==
    /\ LET r == main_callback_session_fails(db, now, st[c], code, state)
       IN  /\ db' = r.db
           /\ st' = [st EXCEPT ![c] = r.st]
           /\ ret' = [op |-> "callback_session_fails", client |-> c, code |-> code,
                      user_info |-> handle_oauth_callback(st[c], "google", code, state),
                      val |-> r.ret]
    /\ UNCHANGED <<now, config, calls>>

(* a request that carries code and state *)
OAuthCallback(c, code, state) ==
    /\ Len(db.sessions) < MaxSessions
    /\ LET r == main_callback(db, now, st[c], code, state)
       IN  /\ db' = r.db
           /\ st' = [st EXCEPT ![c] = r.st]
           /\ ret' = [op |-> "callback", client |-> c, state |-> state,
                      stored_state |-> st[c].oauth_state, code |-> code,
                      user_info |-> handle_oauth_callback(st[c], "google", code, state),
                      val |-> r.ret]
    /\ UNCHANGED <<now, config, calls>>

(* the Logout button of render_user_info, shown to an authenticated client *)
ClickLogout(c) ==
    /\ is_authenticated(db, now, st[c])
    /\ LET r == logout_user(db, st[c])
       IN  /\ db' = r.db
           /\ st' = [st EXCEPT ![c] = r.st]
           /\ ret' = [op |-> "logout", client |-> c, token |-> st[c].user_session]
    /\ UNCHANGED <<now, config, calls>>

(* a request of client c on the page of document doc *)
DocumentRequest(c, doc, event, comment_id, text, element_id) ==
    /\ LET r == main_document(db, now, st[c], doc, event, comment_id, text, element_id)
       IN  /\ db' = r.db
           /\ st' = [st EXCEPT ![c] = r.st]
           /\ ret' = [op |-> event, client |-> c,
                      user |-> get_current_user(db, now, st[c]),
                      comment |-> comment_id, ok |-> r.ret]
    /\ UNCHANGED <<now, config, calls>>

ViewDocument(c, doc) == DocumentRequest(c, doc, "view", 0, <<>>, <<>>)

PostComment(c, doc, text, element_id) ==
    /\ Cardinality(db.comments) < MaxComments
    /\ DocumentRequest(c, doc, "post", 0, text, element_id)

(* Edit clicked and the edit form saved with new_content.  The two clicks are
   taken as one request: the form is rendered, and its Save handled, under
   the Edit button of render_comment. *)
EditComment(c, doc, comment_id, new_content) ==
    DocumentRequest(c, doc, "edit", comment_id, new_content, <<>>)

ClickDelete(c, doc, comment_id) == DocumentRequest(c, doc, "delete", comment_id, <<>>, <<>>)

ClickResolve(c, doc, comment_id) == DocumentRequest(c, doc, "resolve", comment_id, <<>>, <<>>)

(* Calls of the crud functions by a caller that holds the store *)

StoreGetOrCreateUser(email, name, oauth_provider, oauth_id, avatar_url) ==
    /\ LET r == get_or_create_user(db, now, email, name, oauth_provider, oauth_id, avatar_url)
       IN  /\ db' = r.db
           /\ ret' = [op |-> "get_or_create_user", email |-> email, name |-> name,
                      oauth_provider |-> oauth_provider, avatar_url |-> avatar_url,
                      val |-> r.ret, raised |-> r.raised]
    /\ UNCHANGED <<now, config, st, calls>>

StoreCreateSession(user_id) ==
    /\ user_id \in DOMAIN db.users
    /\ Len(db.sessions) < MaxSessions
    /\ LET r == create_session(db, now, user_id)
       IN  /\ db' = r.db
           /\ ret' = [op |-> "create_session", user |-> user_id, val |-> r.ret]
    /\ UNCHANGED <<now, config, st, calls>>

StoreGetUserBySession(session_token) ==
    /\ ret' = [op |-> "get_user_by_session", token |-> session_token,
               val |-> get_user_by_session(db, now, session_token)]
    /\ UNCHANGED <<db, now, config, st, calls>>

StoreInvalidateSession(session_token) ==
    /\ LET r == invalidate_session(db, session_token)
       IN  /\ db' = r.db
           /\ ret' = [op |-> "invalidate_session", token |-> session_token, val |-> r.ret,
                      raised |-> r.raised,
                      was_active |-> \E i \in DOMAIN db.sessions :
                                        /\ db.sessions[i].session_token = session_token
                                        /\ db.sessions[i].is_active]
    /\ UNCHANGED <<now, config, st, calls>>

StoreGetOrCreateDocument(doc) ==
    /\ LET r == get_or_create_document(db, doc.name, doc.date, doc.type)
       IN  /\ Len(r.db.documents) <= MaxDocuments
           /\ db' = r.db
           /\ ret' = [op |-> "get_or_create_document", val |-> r.ret]
    /\ UNCHANGED <<now, config, st, calls>>

StoreCreateComment(user_id, document_id, content, element_id) ==
    /\ user_id \in DOMAIN db.users
    /\ document_id \in DOMAIN db.documents
    /\ Cardinality(db.comments) < MaxComments
    /\ LET r == create_comment(db, user_id, document_id, content, element_id)
       IN  /\ db' = r.db
           /\ ret' = [op |-> "create_comment", user |-> user_id, comment |-> r.ret]
    /\ UNCHANGED <<now, config, st, calls>>

(* create_comment for a user and a document whose rows are in the tables *)
CreateCommentOnRows(user_id, document_id, content, element_id) ==
    /\ user_id \in LiveUsers(db)
    /\ document_id \in LiveDocuments(db)
    /\ Cardinality(db.comments) <= MaxComments
    /\ LET r == create_comment(db, user_id, document_id, content, element_id)
       IN  /\ db' = r.db
           /\ ret' = [op |-> "create_comment", user |-> user_id, comment |-> r.ret]
    /\ UNCHANGED <<now, config, st, calls>>

DeleteDocument(document_id) ==
    /\ document_id \in LiveDocuments(db)
    /\ LET r == delete_document(db, document_id)
       IN  /\ db' = r.db
           /\ ret' = [op |-> "delete_document", row |-> document_id, val |-> r.ret,
                      removed |-> db.comments \ r.db.comments]
    /\ UNCHANGED <<now, config, st, calls>>

DeleteUser(user_id) ==
    /\ user_id \in LiveUsers(db)
    /\ LET r == delete_user(db, user_id)
       IN  /\ db' = r.db
           /\ ret' = [op |-> "delete_user", row |-> user_id, val |-> r.ret,
                      removed |-> db.comments \ r.db.comments]
    /\ UNCHANGED <<now, config, st, calls>>

(* Two request threads in the crud functions at once: Begin runs a call up to
   its SELECT, End runs the rest of it. *)
BeginGetOrCreateDocument(c, doc) ==
    /\ calls[c] = Idle
    /\ calls' = [calls EXCEPT ![c] =
                    [op |-> "get_or_create_document", doc |-> doc,
                     found |-> get_or_create_document_query(db, doc.name, doc.date)]]
    /\ ret' = [op |-> "begin", client |-> c]
    /\ UNCHANGED <<db, now, config, st>>

EndGetOrCreateDocument(c) ==
    /\ calls[c].op = "get_or_create_document"
    /\ LET call == calls[c]
           r == get_or_create_document_finish(db, call.found, call.doc.name,
                                              call.doc.date, call.doc.type)
       IN  /\ Len(r.db.documents) <= MaxDocuments
           /\ db' = r.db
           /\ ret' = [op |-> "get_or_create_document", client |-> c, doc |-> call.doc,
                      val |-> r.ret]
    /\ calls' = [calls EXCEPT ![c] = Idle]
    /\ UNCHANGED <<now, config, st>>

BeginGetOrCreateUser(c, email, name, oauth_provider, oauth_id, avatar_url) ==
    /\ calls[c] = Idle
    /\ calls' = [calls EXCEPT ![c] =
                    [op |-> "get_or_create_user", email |-> email, name |-> name,
                     oauth_provider |-> oauth_provider, oauth_id |-> oauth_id,
                     avatar_url |-> avatar_url,
                     found |-> get_or_create_user_query(db, email, oauth_provider)]]
    /\ ret' = [op |-> "begin", client |-> c]
    /\ UNCHANGED <<db, now, config, st>>

EndGetOrCreateUser(c) ==
    /\ calls[c].op = "get_or_create_user"
    /\ LET call == calls[c]
           r == get_or_create_user_finish(db, now, call.found, call.email, call.name,
                                          call.oauth_provider, call.oauth_id,
                                          call.avatar_url)
       IN  /\ db' = r.db
           /\ ret' = [op |-> "get_or_create_user", client |-> c, email |-> call.email,
                      name |-> call.name, oauth_provider |-> call.oauth_provider,
                      avatar_url |-> call.avatar_url, val |-> r.ret, raised |-> r.raised,
                      found |-> call.found]
    /\ calls' = [calls EXCEPT ![c] = Idle]
    /\ UNCHANGED <<now, config, st>>

(* the add form of render_add_comment_form submitted by the user user_id on
   the page of the document document_id *)
SubmitAddCommentForm(user_id, document_id, comment_text, element_id) ==
    /\ user_id \in DOMAIN db.users
    /\ document_id \in DOMAIN db.documents
    /\ LET r == render_add_comment_form(db, user_id, document_id, comment_text, element_id)
       IN  /\ Cardinality(r.db.comments) <= MaxComments
           /\ db' = r.db
           /\ ret' = [op |-> "add_comment_form", user |-> user_id,
                      document |-> document_id, text |-> comment_text,
                      element_id |-> element_id, comment |-> r.ret]
    /\ UNCHANGED <<now, config, st, calls>>

StoreUpdateComment(comment_id, content) ==
    /\ LET r == update_comment(db, now, comment_id, content)
       IN  /\ db' = r.db
           /\ ret' = [op |-> "update_comment", comment |-> comment_id, val |-> r.ret]
    /\ UNCHANGED <<now, config, st, calls>>

StoreDeleteComment(comment_id, user_id) ==
    /\ LET r == delete_comment(db, comment_id, user_id)
       IN  /\ db' = r.db
           /\ ret' = [op |-> "delete_comment", comment |-> comment_id, user |-> user_id,
                      val |-> r.ret]
    /\ UNCHANGED <<now, config, st, calls>>

StoreResolveComment(comment_id) ==
    /\ LET r == resolve_comment(db, now, comment_id)
       IN  /\ db' = r.db
           /\ ret' = [op |-> "resolve_comment", comment |-> comment_id, val |-> r.ret]
    /\ UNCHANGED <<now, config, st, calls>>

---------------------------------------------------------------------------
(* Specifications *)

Profiles ==
    { Account("e1", "n1", None, "x1"),
      Account("e1", "n2", "pic", "x1"),
      Account("e2", "n1", None, "x2") }

UserIds == 1 .. Cardinality(Emails)

GoogleCodes == {code \in Codes : code.issuer = "google"}

Browser == {"c1"}

(* the login flow of the application, two browser sessions *)
Next ==
    \/ Tick
    \/ \E c \in Clients, p \in Providers, s \in OAuthStates : ClickLogin(c, p, s)
    \/ \E c \in Clients, code \in Codes, s \in OAuthStates : OAuthCallback(c, code, s)
    \/ \E c \in Clients : ClickLogout(c)

Spec == Init /\ [][Next]_vars

(* the comment section of the application, used from one browser session by
   both users in turn *)
NextComments ==
    \/ Tick
    \/ \E c \in Browser, code \in GoogleCodes : OAuthCallback(c, code, "s1")
    \/ \E c \in Browser : ClickLogout(c)
    \/ \E c \in Browser, doc \in Docs : ViewDocument(c, doc)
    \/ \E c \in Browser, doc \in Docs, x \in Texts, e \in ElementIds : PostComment(c, doc, x, e)
    \/ \E c \in Browser, doc \in Docs, k \in CommentIds, x \in Texts : EditComment(c, doc, k, x)
    \/ \E c \in Browser, doc \in Docs, k \in CommentIds : ClickDelete(c, doc, k)
    \/ \E c \in Browser, doc \in Docs, k \in CommentIds : ClickResolve(c, doc, k)

SpecComments == Init /\ [][NextComments]_vars

(* the comment section used by both users in turn while their sessions are
   valid: who may edit, delete and resolve which comment *)
NextOwnership ==
    \/ \E c \in Browser, code \in GoogleCodes : OAuthCallback(c, code, "s1")
    \/ \E c \in Browser, doc \in Docs : ViewDocument(c, doc)
    \/ \E c \in Browser, doc \in Docs, x \in Texts : PostComment(c, doc, x, <<>>)
    \/ \E c \in Browser, doc \in Docs, k \in CommentIds, x \in Texts : EditComment(c, doc, k, x)
    \/ \E c \in Browser, doc \in Docs, k \in CommentIds : ClickDelete(c, doc, k)
    \/ \E c \in Browser, doc \in Docs, k \in CommentIds : ClickResolve(c, doc, k)

SpecOwnership == Init /\ [][NextOwnership]_vars

(* the login flow of one browser session with codes whose exchange fails *)
NextExchange ==
    \/ Tick
    \/ \E c \in Browser, p \in Providers : ClickLogin(c, p, "s1")
    \/ \E c \in Browser, code \in ExchangeCodes, s \in OAuthStates : OAuthCallback(c, code, s)
    \/ \E c \in Browser : ClickLogout(c)

SpecExchange == Init /\ [][NextExchange]_vars

(* the login flow of one browser session in an environment where every
   provider has its client id and secret *)
AllConfigured ==
    [p \in Providers |-> [client_id |-> ClientIds[p], client_secret |-> "secret"]]

InitAllConfigured ==
    /\ db = EmptyDb
    /\ now = 0
    /\ config = AllConfigured
    /\ st = [c \in Clients |-> EmptySessionState]
    /\ ret = [op |-> "init"]
    /\ calls = [c \in Clients |-> Idle]

NextSelected ==
    \/ Tick
    \/ \E c \in Browser, p \in Providers, s \in OAuthStates : ClickLogin(c, p, s)
    \/ \E c \in Browser, code \in Codes : OAuthCallback(c, code, "s1")
    \/ \E c \in Browser : ClickLogout(c)

SpecSelected == InitAllConfigured /\ [][NextSelected]_vars

(* get_oauth_login_url of oauth.py called directly, in every environment *)
InitLoginUrl ==
    /\ db = EmptyDb
    /\ now = 0
    /\ config \in EnvConfigs
    /\ st = [c \in Clients |-> EmptySessionState]
    /\ ret = [op |-> "init"]
    /\ calls = [c \in Clients |-> Idle]

NextLoginUrl ==
    \E c \in Browser, p \in AnyProviders, s \in OAuthStates : GetOAuthLoginUrl(c, p, s)

SpecLoginUrl == InitLoginUrl /\ [][NextLoginUrl]_vars

(* the GitHub exchange of oauth.py called directly *)
NextGitHub ==
    \E c \in Browser, code \in GitHubCodes, s \in OAuthStates : GitHubExchange(c, code, s)

SpecGitHub == Init /\ [][NextGitHub]_vars

(* the add form of comments.py submitted by the users of the store *)
NextAddForm ==
    \/ \E e \in Emails : StoreGetOrCreateUser(e, "n1", "google", "x1", None)
    \/ \E doc \in Docs : StoreGetOrCreateDocument(doc)
    \/ \E u \in UserIds, x \in FormTexts, e \in FormElementIds : SubmitAddCommentForm(u, 1, x, e)
    \/ \E k \in CommentIds, u \in UserIds : StoreDeleteComment(k, u)

SpecAddForm == Init /\ [][NextAddForm]_vars

(* get_or_create_document and get_or_create_user of crud.py called from two
   request threads whose steps interleave *)
NextConcurrent ==
    \/ \E c \in Clients, doc \in Docs : BeginGetOrCreateDocument(c, doc)
    \/ \E c \in Clients : EndGetOrCreateDocument(c)
    \/ \E c \in Clients, u \in Profiles :
          BeginGetOrCreateUser(c, u.email, u.name, "google", u.id, u.picture)
    \/ \E c \in Clients : EndGetOrCreateUser(c)

SpecConcurrent == Init /\ [][NextConcurrent]_vars

(* logins of one browser session, some of them served while the store
   refuses the session row *)
NextLoginFault ==
    \/ Tick
    \/ \E c \in Browser, code \in ExchangeCodes : OAuthCallback(c, code, "s1")
    \/ \E c \in Browser, code \in ExchangeCodes : OAuthCallbackSessionFails(c, code, "s1")

SpecLoginFault == Init /\ [][NextLoginFault]_vars

(* get_or_create_user of crud.py called directly *)
NextStoreUsers ==
    \/ Tick
    \/ \E u \in Profiles, p \in Providers :
          StoreGetOrCreateUser(u.email, u.name, p, u.id, u.picture)

SpecStoreUsers == Init /\ [][NextStoreUsers]_vars

(* the session functions of crud.py called directly *)
NextStore ==
    \/ Tick
    \/ \E e \in Emails : StoreGetOrCreateUser(e, "n1", "google", "x1", None)
    \/ \E u \in UserIds : StoreCreateSession(u)
    \/ \E tok \in Tokens : StoreGetUserBySession(tok)
    \/ \E tok \in Tokens : StoreInvalidateSession(tok)

SpecStore == Init /\ [][NextStore]_vars

(* the comment functions of crud.py called directly *)
NextStoreComments ==
    \/ \E e \in Emails : StoreGetOrCreateUser(e, "n1", "google", "x1", None)
    \/ \E doc \in Docs : StoreGetOrCreateDocument(doc)
    \/ \E u \in UserIds, x \in {<<"a">>}, e \in {<<>>, <<<<"s">>>>} : StoreCreateComment(u, 1, x, e)
    \/ \E k \in CommentIds, x \in {<<"b">>} : StoreUpdateComment(k, x)
    \/ \E k \in CommentIds, u \in UserIds : StoreDeleteComment(k, u)
    \/ \E k \in CommentIds : StoreResolveComment(k)

SpecStoreComments == Init /\ [][NextStoreComments]_vars

TwoDocs ==
    { [name |-> "report", date |-> "2024-01-01", type |-> "html"],
      [name |-> "report", date |-> "2024-01-02", type |-> "pdf"] }

DocumentIds == 1 .. MaxDocuments

(* users, documents and comments created and removed through the ORM *)
NextCascade ==
    \/ \E e \in Emails : StoreGetOrCreateUser(e, "n1", "google", "x1", None)
    \/ \E doc \in TwoDocs : StoreGetOrCreateDocument(doc)
    \/ \E u \in UserIds, k \in DocumentIds : CreateCommentOnRows(u, k, <<"a">>, <<>>)
    \/ \E k \in CommentIds : StoreResolveComment(k)
    \/ \E k \in DocumentIds : DeleteDocument(k)
    \/ \E u \in UserIds : DeleteUser(u)

SpecCascade == Init /\ [][NextCascade]_vars

---------------------------------------------------------------------------
(* Properties *)

ValidSessions(d, t, tok) ==
    {i \in DOMAIN d.sessions : /\ d.sessions[i].session_token = tok
                               /\ d.sessions[i].is_active
                               /\ d.sessions[i].expires_at > t}

(* C1: get_user_by_session(token) returns the owning user exactly when a
   session row carries the token, is active and has expires_at strictly after
   now; for an unknown, inactive or expired (expires_at <= now) token it
   returns nothing. *)
C1_ResolveSession ==
    ret.op = "get_user_by_session" =>
        IF ValidSessions(db, now, ret.token) # {}
        THEN /\ ret.val \in DOMAIN db.users
             /\ \A i \in ValidSessions(db, now, ret.token) : db.sessions[i].user_id = ret.val
        ELSE ret.val = 0

(* a lookup at the very hour the session expires returns nothing *)
C1_Witness ==
    /\ ret.op = "get_user_by_session"
    /\ ret.val = 0
    /\ \E i \in DOMAIN db.sessions : /\ db.sessions[i].session_token = ret.token
                                     /\ db.sessions[i].is_active
                                     /\ db.sessions[i].expires_at = now

DeadSession(d, t, tok) ==
    \E i \in DOMAIN d.sessions : /\ d.sessions[i].session_token = tok
                                 /\ (~d.sessions[i].is_active \/ d.sessions[i].expires_at <= t)

(* C2: once an issued session has been invalidated or the clock has reached
   its expires_at, it stays so and get_user_by_session on its token returns
   nothing after every further step (login, logout, upsert, comment
   operation, passage of time). *)
C2_DeadStaysDead ==
    [][\A tok \in Tokens :
          DeadSession(db, now, tok) =>
              /\ DeadSession(db', now', tok)
              /\ get_user_by_session(db', now', tok) = 0]_vars

(* a session was invalidated, its user logged in again later and holds a
   valid session, and a comment was posted *)
C2_Witness ==
    /\ db.comments # {}
    /\ \E i, j \in DOMAIN db.sessions :
          /\ i < j
          /\ ~db.sessions[i].is_active
          /\ db.sessions[j].user_id = db.sessions[i].user_id
          /\ get_user_by_session(db, now, db.sessions[j].session_token) # 0
          /\ get_user_by_session(db, now, db.sessions[i].session_token) = 0

(* C3: a callback whose state differs from the state stored when the login
   URL was built (or with no state stored) is aborted: it creates no user row
   and no session row. *)
C3_StateMismatchAborts ==
    [][(ret'.op = "callback" /\ ret'.state # ret'.stored_state) =>
          (db'.users = db.users /\ db'.sessions = db.sessions)]_vars

(* C4: an edit request on comment c by user u succeeds only when u is c's
   owner; a non-owner's request is rejected and leaves c's row (content and
   updated_at) as it was; and no step changes a comment's content except an
   edit by its owner. *)
C4_EditOnlyByOwner ==
    [][/\ ret'.op = "edit" =>
            \A c \in db.comments :
                (c.id = ret'.comment /\ c.user_id # ret'.user) =>
                    (~ret'.ok /\ c \in db'.comments)
       /\ \A c \in db.comments, c2 \in db'.comments :
            (c.id = c2.id /\ c.content # c2.content) =>
                (ret'.op = "edit" /\ ret'.ok /\ ret'.comment = c.id /\ ret'.user = c.user_id)]_vars

(* an authenticated user who is not the owner asked to edit, and was refused *)
C4_Witness ==
    /\ ret.op = "edit"
    /\ ret.user # 0
    /\ ~ret.ok
    /\ \E c \in db.comments : c.id = ret.comment /\ c.user_id # ret.user

(* C5: delete_comment(comment_id, user_id) returns true and removes the row
   exactly when a comment with that id and that user_id exists; otherwise
   (caller not the owner, or no such id) it returns false and leaves every
   comment row in place, unchanged. *)
C5_DeleteComment ==
    [][ret'.op = "delete_comment" =>
          LET owned == {c \in db.comments : c.id = ret'.comment /\ c.user_id = ret'.user}
          IN  /\ ret'.val <=> owned # {}
              /\ db'.comments = db.comments \ owned]_vars

(* delete_comment was called by a user who does not own the existing comment *)
C5_Witness ==
    /\ ret.op = "delete_comment"
    /\ ~ret.val
    /\ \E c \in db.comments : c.id = ret.comment /\ c.user_id # ret.user

C7_MutationsNeedSession ==
    [][db'.comments # db.comments =>
          /\ ret'.op \in {"post", "edit", "delete", "resolve"}
          /\ ValidSessions(db, now, st[ret'.client].user_session) # {}]_vars

(* a client that still holds the token of an expired session asked for a
   comment mutation and was refused *)
C7_Witness ==
    /\ ret.op \in {"post", "edit", "delete", "resolve"}
    /\ ~ret.ok
    /\ st[ret.client].user_session # 0
    /\ DeadSession(db, now, st[ret.client].user_session)

SamePair(u, email, oauth_provider) ==
    u.email = email /\ u.oauth_provider = oauth_provider

(* C8: a call of get_or_create_user for an (email, oauth_provider) that
   already has a row adds no row, returns that row's id and sets its name,
   avatar_url and last_login from the call; and no two rows carry the same
   pair. *)
C8_UpsertTwice ==
    [][/\ ret'.op = "get_or_create_user" =>
            \A i \in DOMAIN db.users :
                SamePair(db.users[i], ret'.email, ret'.oauth_provider) =>
                    /\ ~ret'.raised
                    /\ ret'.val = i
                    /\ db'.users = [db.users EXCEPT ![i].name = ret'.name,
                                                    ![i].avatar_url = ret'.avatar_url,
                                                    ![i].last_login = <<now>>]
       /\ \A i, j \in DOMAIN db'.users :
            SamePair(db'.users[i], db'.users[j].email, db'.users[j].oauth_provider) => i = j]_vars

(* the second call for a pair changed the name and set last_login *)
C8_Witness ==
    /\ ret.op = "get_or_create_user"
    /\ ~ret.raised
    /\ ret.val \in DOMAIN db.users
    /\ db.users[ret.val].name = "n2"
    /\ db.users[ret.val].last_login = <<now>>
    /\ now > 0

(* C9: get_or_create_user for an (email, oauth_provider) that has no row yet
   creates a new user row, also when the email has a row under another
   provider. *)
C9_NewUserPerProvider ==
    [][(/\ ret'.op = "get_or_create_user"
        /\ \A i \in DOMAIN db.users :
              ~SamePair(db.users[i], ret'.email, ret'.oauth_provider)) =>
          /\ Len(db'.users) = Len(db.users) + 1
          /\ SamePair(db'.users[Len(db'.users)], ret'.email, ret'.oauth_provider)]_vars

(* C10: after a successful code exchange the callback upserts the user and
   adds exactly one session row: active, owned by that user, expiring 24
   hours after now, with a token no earlier session has; the token is
   returned, kept by the client, and resolves to that user. *)
C10_LoginCreatesSession ==
    [][(ret'.op = "callback" /\ ret'.user_info # <<>>) =>
          LET info == ret'.user_info[1]
              n == Len(db'.sessions)
          IN  /\ n = Len(db.sessions) + 1
              /\ SubSeq(db'.sessions, 1, n - 1) = db.sessions
              /\ db'.sessions[n].is_active
              /\ db'.sessions[n].expires_at = now + 24
              /\ db'.sessions[n].session_token = ret'.val
              /\ \A i \in DOMAIN db.sessions : db.sessions[i].session_token # ret'.val
              /\ db'.sessions[n].user_id \in DOMAIN db'.users
              /\ LET u == db'.users[db'.sessions[n].user_id]
                 IN  /\ SamePair(u, info.email, info.oauth_provider)
                     /\ u.name = info.name
                     /\ u.avatar_url = info.avatar_url
              /\ st'[ret'.client].user_session = ret'.val
              /\ get_user_by_session(db', now', ret'.val) = db'.sessions[n].user_id]_vars

(* a second login of a known user: the callback returned a token the client
   now holds *)
C10_Witness ==
    /\ ret.op = "callback"
    /\ ret.val # 0
    /\ st[ret.client].user_session = ret.val
    /\ Len(db.sessions) > Len(db.users)

(* the exchange of code cannot yield a complete profile: the token or the
   profile endpoint answers non-success, or a required field of the profile
   is missing or null *)
ExchangeFails(code) ==
    \/ code.issuer # "google"
    \/ code.profile_status # 200
    \/ code.user_info.email \in {Missing, None}
    \/ code.user_info.name \in {Missing, None}
    \/ code.user_info.id = Missing

(* C11: a callback whose code exchange fails creates no user row and no
   session row and leaves the client's session state as it was: a client
   that held no token holds none and is still anonymous. *)
C11_FailedExchangeCreatesNothing ==
    [][(ret'.op = "callback" /\ ExchangeFails(ret'.code)) =>
          /\ db'.users = db.users
          /\ db'.sessions = db.sessions
          /\ st' = st
          /\ ret'.val = 0
          /\ (st[ret'.client].user_session = 0 =>
                  /\ st'[ret'.client].user_session = 0
                  /\ get_current_user(db', now', st'[ret'.client]) = 0)]_vars

(* after an earlier login and logout, an anonymous client's callback with a
   Google code failed at the profile step *)
C11_Witness ==
    /\ ret.op = "callback"
    /\ ret.code.issuer = "google"
    /\ ExchangeFails(ret.code)
    /\ db.users # <<>>
    /\ st[ret.client].user_session = 0
    /\ get_current_user(db, now, st[ret.client]) = 0

(* C12: a logout of a client that holds a token marks that token's session
   inactive, adds no session row and changes no other, and removes the token
   and the cached user info from the client's state; get_current_user then
   returns nothing for the client, and the token resolves to no user. *)
C12_Logout ==
    [][ret'.op = "logout" =>
          LET c == ret'.client
              tok == ret'.token
          IN  /\ tok # 0
              /\ Len(db'.sessions) = Len(db.sessions)
              /\ \A i \in DOMAIN db.sessions :
                    IF db.sessions[i].session_token = tok
                    THEN db'.sessions[i] = [db.sessions[i] EXCEPT !.is_active = FALSE]
                    ELSE db'.sessions[i] = db.sessions[i]
              /\ \E i \in DOMAIN db.sessions : db.sessions[i].session_token = tok
              /\ st'[c].user_session = 0
              /\ st'[c].user_info = <<>>
              /\ get_current_user(db', now', st'[c]) = 0
              /\ get_user_by_session(db', now', tok) = 0]_vars

(* one of two browser sessions of the same user logged out; the other's
   session is still valid *)
C12_Witness ==
    /\ ret.op = "logout"
    /\ \E i, j \in DOMAIN db.sessions :
          /\ db.sessions[i].session_token = ret.token
          /\ ~db.sessions[i].is_active
          /\ j # i
          /\ db.sessions[j].user_id = db.sessions[i].user_id
          /\ get_user_by_session(db, now, db.sessions[j].session_token) # 0

(* C13: invalidate_session does not raise; invalidating the token of a
   session that is already inactive changes nothing, so the store is as after
   the first invalidation, and a further invalidation of the result changes
   nothing either; invalidating a token no session carries changes no row and
   returns false. *)
C13_InvalidateIdempotent ==
    [][ret'.op = "invalidate_session" =>
          LET tok == ret'.token
              known == \E i \in DOMAIN db.sessions : db.sessions[i].session_token = tok
          IN  /\ ~ret'.raised
              /\ ret'.val = known
              /\ (known /\ ~ret'.was_active) => db' = db
              /\ ~known => db' = db
              /\ invalidate_session(db', tok).db = db'
              /\ \A i \in DOMAIN db'.sessions :
                    db'.sessions[i].session_token = tok => ~db'.sessions[i].is_active]_vars

(* the token of a session already invalidated was invalidated again, while
   another session is still active *)
C13_Witness ==
    /\ ret.op = "invalidate_session"
    /\ ret.val
    /\ ~ret.was_active
    /\ \E i \in DOMAIN db.sessions : db.sessions[i].is_active

(* C14: in every state and for every client, get_current_user reports a user
   only if the token the client holds is the token of an active session whose
   expires_at is still ahead, and then it reports that session's user; a
   client whose token belongs to an inactive or expired session is anonymous
   for get_current_user and is_authenticated, whatever user info it caches. *)
C14_CurrentUserNeedsValidSession ==
    \A c \in Clients :
        LET s == st[c]
            u == get_current_user(db, now, s)
        IN  /\ u # 0 =>
                  /\ s.user_session # 0
                  /\ \E i \in DOMAIN db.sessions :
                        /\ db.sessions[i].session_token = s.user_session
                        /\ db.sessions[i].is_active
                        /\ db.sessions[i].expires_at > now
                        /\ db.sessions[i].user_id = u
            /\ (s.user_session # 0 /\ DeadSession(db, now, s.user_session)) =>
                  /\ u = 0
                  /\ ~is_authenticated(db, now, s)
            /\ s.user_session = 0 => ~is_authenticated(db, now, s)

(* a client still holds the token and the cached user info of a session that
   has expired, and another client is authenticated *)
C14_Witness ==
    \E c, c2 \in Clients :
        /\ st[c].user_session # 0
        /\ st[c].user_info # <<>>
        /\ DeadSession(db, now, st[c].user_session)
        /\ get_current_user(db, now, st[c]) = 0
        /\ is_authenticated(db, now, st[c2])

(* both the client id and the client secret of provider are set and non-empty *)
BothPresent(cfg, provider) ==
    /\ provider \in Providers
    /\ cfg[provider].client_id \notin {None, ""}
    /\ cfg[provider].client_secret \notin {None, ""}

(* C15: a provider is configured exactly when its client id and its client
   secret are both present; get_oauth_login_url returns a URL exactly for a
   configured provider, and for any other provider name it returns none and
   leaves the stored state and the stored provider of the client unchanged. *)
C15_Unconfigured ==
    [][ret'.op = "get_oauth_login_url" =>
          LET c == ret'.client
              p == ret'.provider
          IN  /\ is_configured(config, p) <=> BothPresent(config, p)
              /\ (ret'.val # <<>>) <=> BothPresent(config, p)
              /\ ~BothPresent(config, p) =>
                    /\ st'[c].oauth_state = st[c].oauth_state
                    /\ st'[c].oauth_provider = st[c].oauth_provider
                    /\ st' = st]_vars

(* a client with a pending login at one provider asked for the URL of a
   provider that has a client id but no secret, and got none *)
C15_Witness ==
    /\ ret.op = "get_oauth_login_url"
    /\ ret.val = <<>>
    /\ ret.provider \in Providers
    /\ config[ret.provider].client_id \notin {None, ""}
    /\ st[ret.client].oauth_state # None
    /\ st[ret.client].oauth_provider # ret.provider

(* the scopes each provider is asked for *)
RequestedScope(provider) ==
    IF provider = "github" THEN "user:email" ELSE "openid email profile"

(* the parameters of the URL other than response_type *)
UrlCarries(url, cfg, s, provider) ==
    /\ url.endpoint = provider
    /\ url.client_id = cfg[provider].client_id
    /\ url.redirect_uri = "http://localhost:8500"
    /\ url.scope = RequestedScope(provider)
    /\ url.state # None
    /\ url.state = s.oauth_state
    /\ s.oauth_provider = provider

(* C16 as stated: for each of the three providers, when configured, the URL
   carries the provider's client id, the redirect URI, the scopes,
   response_type=code, and the state stored for the pending login. *)
C16_AuthUrl ==
    [][(ret'.op = "get_oauth_login_url" /\ BothPresent(config, ret'.provider)) =>
          /\ ret'.val # <<>>
          /\ UrlCarries(ret'.val[1], config, st'[ret'.client], ret'.provider)
          /\ ret'.val[1].response_type = "code"]_vars

(* C16 amended: the URL of a configured provider carries the provider's
   client id, the redirect URI, the scopes and the stored state; it carries
   response_type=code for google and microsoft, and no response_type for
   github. *)
C16_AuthUrlPerProvider ==
    [][(ret'.op = "get_oauth_login_url" /\ BothPresent(config, ret'.provider)) =>
          /\ ret'.val # <<>>
          /\ UrlCarries(ret'.val[1], config, st'[ret'.client], ret'.provider)
          /\ ret'.val[1].response_type =
                IF ret'.provider \in {"google", "microsoft"} THEN "code" ELSE None]_vars

(* all three providers are configured and the URL of github was built, with
   the state now stored for the client *)
C16_Witness ==
    /\ \A p \in Providers : BothPresent(config, p)
    /\ ret.op = "get_oauth_login_url"
    /\ ret.provider = "github"
    /\ ret.val # <<>>
    /\ ret.val[1].state = st[ret.client].oauth_state

(* C17: in a GitHub exchange whose endpoints answer and whose profile has no
   public email, the email returned is that of the first entry of the email
   list marked primary; with no entry marked primary the exchange fails. *)
C17_GitHubPrimaryEmail ==
    [][(/\ ret'.op = "github_exchange"
        /\ ret'.code.profile_status = 200
        /\ ret'.code.emails_status = 200
        /\ ret'.code.user_info.email = None) =>
          LET emails == ret'.code.emails
              primary == {i \in DOMAIN emails : emails[i].primary}
          IN  IF primary # {}
              THEN /\ ret'.val # <<>>
                   /\ ret'.val[1].email = emails[Min(primary)].email
              ELSE ret'.val = <<>>]_vars

(* x is empty or holds whitespace only *)
Blank(x) == \A i \in DOMAIN x : x[i] \in {" ", "\t", "\n"}

(* y is x without its leading and trailing whitespace *)
Trimmed(x, y) ==
    \E i \in 1 .. Len(x) + 1, j \in 0 .. Len(x) :
        /\ y = SubSeq(x, i, j)
        /\ \A k \in 1 .. (i - 1) : Blank(<<x[k]>>)
        /\ \A k \in (j + 1) .. Len(x) : Blank(<<x[k]>>)
        /\ y # <<>> => (~Blank(<<y[1]>>) /\ ~Blank(<<y[Len(y)]>>))

(* C18: the add form submitted with a text that is empty after trimming
   creates no comment row: the set of comments, and the whole store, is
   unchanged. *)
C18_EmptyCommentRejected ==
    [][(ret'.op = "add_comment_form" /\ Blank(ret'.text)) =>
          /\ db'.comments = db.comments
          /\ db' = db
          /\ ret'.comment = 0]_vars

(* a whitespace-only text was submitted on a document that has a comment,
   which is still there *)
C18_Witness ==
    /\ ret.op = "add_comment_form"
    /\ ret.text # <<>>
    /\ Blank(ret.text)
    /\ get_comments_for_document(db, ret.document) # {}

(* C19: the add form submitted with a text that is not blank adds exactly one
   comment; read back with the document's comments, it has the submitted text
   without its surrounding whitespace as content, and no element_id when the
   submitted element id is blank (the trimmed element id otherwise). *)
C19_TrimmedRoundTrip ==
    [][(ret'.op = "add_comment_form" /\ ~Blank(ret'.text)) =>
          LET read == get_comments_for_document(db', ret'.document)
              new == {c \in read : c.id = ret'.comment}
          IN  /\ ret'.comment # 0
              /\ db'.comments \ db.comments = new
              /\ db.comments \subseteq db'.comments
              /\ Cardinality(new) = 1
              /\ \A c \in new :
                    /\ Trimmed(ret'.text, c.content)
                    /\ c.content # <<>>
                    /\ c.user_id = ret'.user
                    /\ IF Blank(ret'.element_id)
                       THEN c.element_id = <<>>
                       ELSE /\ Len(c.element_id) = 1
                            /\ Trimmed(ret'.element_id, c.element_id[1])]_vars

(* a text with whitespace on both sides was submitted with a whitespace-only
   element id; the comment read back has no element_id *)
C19_Witness ==
    /\ ret.op = "add_comment_form"
    /\ ret.comment # 0
    /\ Len(ret.text) > 2
    /\ Blank(<<ret.text[1]>>)
    /\ Blank(<<ret.text[Len(ret.text)]>>)
    /\ ret.element_id # <<>>
    /\ Blank(ret.element_id)
    /\ \E c \in get_comments_for_document(db, ret.document) :
          c.id = ret.comment /\ c.element_id = <<>> /\ c.content = <<"a">>

(* C20: a comment is created with no updated_at; the updated_at of a comment
   changes only in an update_comment of that comment, which sets it to the
   time of the call; resolve_comment leaves every updated_at as it was. *)
C20_UpdatedAtOnlyOnEdit ==
    [][/\ \A c2 \in db'.comments :
             (\A c \in db.comments : c.id # c2.id) => c2.updated_at = <<>>
       /\ \A c \in db.comments, c2 \in db'.comments :
             (c.id = c2.id /\ c2.updated_at # c.updated_at) =>
                 /\ ret'.op = "update_comment"
                 /\ ret'.comment = c.id
                 /\ c2.updated_at = <<now>>
       /\ ret'.op = "resolve_comment" =>
             \A c \in db.comments, c2 \in db'.comments :
                 c.id = c2.id => c2.updated_at = c.updated_at]_vars

(* C21: at most one document row per (name, date), also when the calls of
   two requests interleave; a call for a pair that has a row returns that row
   and changes no row. *)
C21_DocumentUnique ==
    [][/\ \A i, j \in DOMAIN db'.documents :
             (/\ db'.documents[i].name = db'.documents[j].name
              /\ db'.documents[i].date = db'.documents[j].date) => i = j
       /\ (/\ ret'.op = "get_or_create_document"
           /\ get_or_create_document_query(db, ret'.doc.name, ret'.doc.date) # 0) =>
             /\ db'.documents = db.documents
             /\ ret'.val = get_or_create_document_query(db, ret'.doc.name, ret'.doc.date)]_vars

(* C22: a get_or_create_user that finishes, also one interleaved with another
   call for the same (email, oauth_provider), does not raise, leaves exactly
   one user row for the pair and returns it. *)
C22_AtomicGetOrCreateUser ==
    [][ret'.op = "get_or_create_user" =>
          LET rows == {i \in DOMAIN db'.users :
                          SamePair(db'.users[i], ret'.email, ret'.oauth_provider)}
          IN  /\ ~ret'.raised
              /\ Cardinality(rows) = 1
              /\ ret'.val \in rows]_vars

(* C23: a login request that fails (its exchange, its upsert or its session
   insert) leaves the store as it was: no new user row, no change of an
   existing user's name, avatar_url or last_login, and no session row. *)
C23_LoginAllOrNothing ==
    [][(ret'.op \in {"callback", "callback_session_fails"} /\ ret'.val = 0) =>
          /\ db'.users = db.users
          /\ db'.sessions = db.sessions]_vars

(* no session row carries tok *)
NeverIssued(d, tok) == \A i \in DOMAIN d.sessions : d.sessions[i].session_token # tok

(* C24: get_user_by_session gives the caller the same outcome for a token
   that was never issued, a token whose session has expired and a token whose
   session was invalidated: it returns None and changes no row. *)
C24_SameOutcome ==
    [][(/\ ret'.op = "get_user_by_session"
        /\ (NeverIssued(db, ret'.token) \/ DeadSession(db, now, ret'.token))) =>
          /\ ret'.val = 0
          /\ db' = db]_vars

(* the token of a session that is active but expired was looked up and gave
   None, in a store that also holds an invalidated session *)
C24_Witness ==
    /\ ret.op = "get_user_by_session"
    /\ ret.val = 0
    /\ \E i, j \in DOMAIN db.sessions :
          /\ db.sessions[i].session_token = ret.token
          /\ db.sessions[i].is_active
          /\ db.sessions[i].expires_at <= now
          /\ ~db.sessions[j].is_active
          /\ db.sessions[j].expires_at > now
    /\ \E tok \in Tokens : NeverIssued(db, tok)

(* C25: no step removes a session row: every row of sessions is still there
   after the step, with its token, user_id and expires_at unchanged. *)
C25_SessionsKept ==
    [][/\ Len(db'.sessions) >= Len(db.sessions)
       /\ \A i \in DOMAIN db.sessions :
             /\ i \in DOMAIN db'.sessions
             /\ db'.sessions[i].session_token = db.sessions[i].session_token
             /\ db'.sessions[i].user_id = db.sessions[i].user_id
             /\ db'.sessions[i].expires_at = db.sessions[i].expires_at]_vars

(* the store still holds a session that was logged out and a session that
   has expired, after a logout *)
C25_Witness ==
    /\ ret.op = "logout"
    /\ \E i, j \in DOMAIN db.sessions :
          /\ ~db.sessions[i].is_active
          /\ db.sessions[j].is_active
          /\ db.sessions[j].expires_at <= now
          /\ get_user_by_session(db, now, db.sessions[i].session_token) = 0
          /\ get_user_by_session(db, now, db.sessions[j].session_token) = 0

(* C26: deleting a document removes exactly the comments of that document,
   deleting a user removes exactly the comments of that user; afterwards no
   comment refers to the deleted row and every other comment is unchanged. *)
C26_CascadeDelete ==
    [][/\ (ret'.op = "delete_document" /\ ret'.val) =>
             /\ db'.comments = {c \in db.comments : c.document_id # ret'.row}
             /\ \A c \in db'.comments : c.document_id \in LiveDocuments(db')
       /\ (ret'.op = "delete_user" /\ ret'.val) =>
             /\ db'.comments = {c \in db.comments : c.user_id # ret'.row}
             /\ \A c \in db'.comments : c.user_id \in LiveUsers(db')]_vars

(* a document that had a comment was deleted while a comment of another
   document is still there *)
C26_Witness ==
    /\ ret.op = "delete_document"
    /\ ret.val
    /\ db.documents[ret.row] = DeletedDocument
    /\ ret.removed # {}
    /\ \E c \in db.comments : c.document_id # ret.row

(* a user that had a comment was deleted while a comment of another user is
   still there *)
C26_WitnessUser ==
    /\ ret.op = "delete_user"
    /\ ret.val
    /\ ret.row \notin LiveUsers(db)
    /\ ret.removed # {}
    /\ \E c \in db.comments : c.user_id # ret.row

(* C27: the callback exchanges the code with the provider the client chose
   when the login URL was made (oauth_provider of its session state): a code
   that provider issued logs the client in as a user of that provider, and a
   callback that logs a client in does so as a user of the chosen provider. *)
C27_SelectedProvider ==
    [][(/\ ret'.op = "callback"
        /\ st[ret'.client].oauth_provider \in Providers) =>
          LET c == ret'.client
              chosen == st[c].oauth_provider
          IN  /\ (ret'.code.issuer = chosen /\ ret'.code.profile_status = 200) =>
                    ret'.val # 0
              /\ ret'.val # 0 =>
                    db'.users[st'[c].user_info[1].id].oauth_provider = chosen]_vars

(* C28: a login adds a session and changes no earlier one; a logout sets
   only the session of the client's token inactive; after either, every
   other token resolves to the user it resolved to before. *)
C28_SessionsIndependent ==
    [][/\ ret'.op = "callback" =>
             \A i \in DOMAIN db.sessions : db'.sessions[i] = db.sessions[i]
       /\ ret'.op = "logout" =>
             /\ DOMAIN db'.sessions = DOMAIN db.sessions
             /\ \A i \in DOMAIN db.sessions :
                   IF db.sessions[i].session_token = ret'.token
                   THEN db'.sessions[i] = [db.sessions[i] EXCEPT !.is_active = FALSE]
                   ELSE db'.sessions[i] = db.sessions[i]
       /\ ret'.op \in {"callback", "logout"} =>
             \A i \in DOMAIN db.sessions :
                 LET tok == db.sessions[i].session_token
                 IN  (ret'.op = "logout" => tok # ret'.token) =>
                        get_user_by_session(db', now', tok) = get_user_by_session(db, now, tok)]_vars

(* a user with two sessions logged out of one, and the other still resolves
   to that user *)
C28_Witness ==
    /\ ret.op = "logout"
    /\ \E i, j \in DOMAIN db.sessions :
          /\ db.sessions[i].session_token = ret.token
          /\ ~db.sessions[i].is_active
          /\ i # j
          /\ db.sessions[j].user_id = db.sessions[i].user_id
          /\ get_user_by_session(db, now, db.sessions[j].session_token) = db.sessions[i].user_id

(* C29: a Delete click deletes a comment only when the step before it was
   the same client's Delete click on that comment which deleted nothing: the
   pending confirmation does not outlive any other action. *)
C29_TwoClickDelete ==
    [][(ret'.op = "delete" /\ ret'.ok) =>
          /\ ret.op = "delete"
          /\ ~ret.ok
          /\ ret.client = ret'.client
          /\ ret.comment = ret'.comment]_vars

(* C30: a step that keeps a comment (its id is in the table before and
   after) keeps its user_id and document_id, and keeps is_resolved true when
   it was true. *)
C30_OwnershipAndResolvedKept ==
    [][\A c \in db.comments : \A e \in db'.comments :
          c.id = e.id =>
             /\ e.user_id = c.user_id
             /\ e.document_id = c.document_id
             /\ c.is_resolved => e.is_resolved]_vars

(* a resolved comment was edited and is still resolved and still its
   author's *)
C30_Witness ==
    /\ ret.op = "update_comment"
    /\ ret.val # 0
    /\ \E c \in db.comments :
          /\ c.id = ret.val
          /\ c.content = <<"b">>
          /\ c.is_resolved
          /\ c.user_id = 2

====
